---- MODULE Spec2Model ----
(***************************************************************************)
(* The incremental data-refresh orchestrator of Gas/scripts:               *)
(*   automate_bronze_silver.py  (Bronze -> Silver cycle, one-shot/daemon)  *)
(*   automate_bronze.py         (Bronze-only cycle, one-shot/daemon)       *)
(*   scheduling.py              (DataSourceSchedule)                       *)
(*   metadata.py                (freshness records on disk)                *)
(*   script_runner.py           (run_script_with_retry)                    *)
(*   update_pipeline.py         (smart_update: Bronze -> Silver -> Gold)   *)
(*                                                                         *)
(* Time is the wall clock datetime.now(), sampled in ticks of              *)
(* EIA_UPDATE_MINUTE = 30 minutes (the finest unit of the schedule         *)
(* constants); tick 0 is a Monday 00:00.  The clock never runs backwards.  *)
(* Two process invocations (or two daemon cycles) are at least one tick    *)
(* apart, and a cycle is short against a tick: all clock readings of one   *)
(* cycle fall into the same tick.  In Spec and SpecDue store reads and     *)
(* writes succeed; SpecStore is the Bronze update under store faults.      *)
(* SpecRunner is script_runner.run_script_with_retry on its own, SpecFetch *)
(* is EIAClient.fetch of src/ingestion/eia_client.py, SpecSmart is         *)
(* smart_update of update_pipeline.py.                                     *)
(***************************************************************************)
EXTENDS Integers, Sequences, FiniteSets, TLC

(***************************************************************************)
(* Program constants: scheduling.py, class DataSourceSchedule.             *)
(***************************************************************************)
EIA_UPDATE_DAY == 2
EIA_UPDATE_HOUR == 15
EIA_UPDATE_MINUTE == 30
RBOB_MARKET_OPEN_HOUR == 14
RBOB_MARKET_CLOSE_HOUR == 21
RETAIL_UPDATE_DAY == 0
RETAIL_UPDATE_HOUR == 12

\* thresholds of should_update_eia / should_update_retail / should_update_rbob
MAX_AGE_DAYS == 7
MIN_AGE_HOURS == 1

\* run_script(max_retries = 3); the optional Silver scripts get max_retries = 2
DEFAULT_MAX_RETRIES == 3
OPTIONAL_MAX_RETRIES == 2

\* Python's None (an absent timestamp, a process that has not exited)
None == -1

(***************************************************************************)
(* Bounds of the model.                                                    *)
(***************************************************************************)
\* process invocations plus daemon cycles in one behaviour
MaxCycles == 2
\* SpecDue: ages up to MAX_AGE_DAYS days plus this many ticks
MaxAgeSlack == 2

(***************************************************************************)
(* The calendar of datetime: weekday(), hour, replace(), timedelta.        *)
(***************************************************************************)
TickMinutes == EIA_UPDATE_MINUTE
TicksPerHour == 60 \div TickMinutes
DayTicks == 24 * TicksPerHour
WeekTicks == 7 * DayTicks

\* datetime.weekday(): 0 = Monday
Weekday(t) == (t \div DayTicks) % 7
\* datetime.hour
Hour(t) == (t % DayTicks) \div TicksPerHour
\* t.replace(hour=h, minute=m, second=0, microsecond=0)
Replace(t, h, m) == (t - (t % DayTicks)) + h * TicksPerHour + (m \div TickMinutes)
\* (a - b).days
Days(delta) == delta \div DayTicks

(***************************************************************************)
(* scheduling.py                                                           *)
(***************************************************************************)
\* a computation that never looks whether today's update time has passed
NextUpdateTime_same_day(t, day, hour, minute) ==
    LET days_ahead == (day - Weekday(t)) % 7
    IN  Replace(t + days_ahead * DayTicks, hour, minute)

\* get_eia_update_time / get_retail_update_time: the NEXT update time
NextUpdateTime(t, day, hour, minute) ==
    LET days0 == (day - Weekday(t)) % 7
        days_ahead == IF days0 = 0 /\ t >= Replace(t, hour, minute) THEN 7 ELSE days0
    IN  Replace(t + days_ahead * DayTicks, hour, minute)

get_eia_update_time(t) ==
    NextUpdateTime(t, EIA_UPDATE_DAY, EIA_UPDATE_HOUR, EIA_UPDATE_MINUTE)

get_retail_update_time(t) ==
    NextUpdateTime(t, RETAIL_UPDATE_DAY, RETAIL_UPDATE_HOUR, 0)

is_market_hours_open_only(t) ==
    IF Weekday(t) >= 5 THEN FALSE
    ELSE RBOB_MARKET_OPEN_HOUR <= Hour(t) /\ Hour(t) < RBOB_MARKET_CLOSE_HOUR

is_market_hours(t) ==
    IF Weekday(t) >= 5 THEN FALSE
    ELSE RBOB_MARKET_OPEN_HOUR <= Hour(t) /\ Hour(t) <= RBOB_MARKET_CLOSE_HOUR

(***************************************************************************)
(* automate_bronze_silver.py (and, identically, automate_bronze.py):       *)
(* the staleness decisions.  t is datetime.now(), last the stored          *)
(* last_download (None when there is no record).                           *)
(***************************************************************************)
should_update_eia_strict_age(force, t, last) ==
    IF force THEN TRUE
    ELSE IF last = None THEN TRUE
    ELSE IF Days(t - last) > MAX_AGE_DAYS THEN TRUE
    ELSE IF last < get_eia_update_time(t) /\ get_eia_update_time(t) <= t THEN TRUE
    ELSE FALSE

should_update_eia(force, t, last) ==
    IF force THEN TRUE
    ELSE IF last = None THEN TRUE
    ELSE IF Days(t - last) >= MAX_AGE_DAYS THEN TRUE
    ELSE IF last < get_eia_update_time(t) /\ get_eia_update_time(t) <= t THEN TRUE
    ELSE FALSE

should_update_rbob(force, t, last) ==
    IF force THEN TRUE
    ELSE IF ~is_market_hours(t) THEN FALSE
    ELSE IF last = None THEN TRUE
    ELSE IF (t - last) >= MIN_AGE_HOURS * TicksPerHour THEN TRUE
    ELSE FALSE

\* a maximum-age rule that holds on the seventh day only
should_update_retail_seventh_day_only(force, t, last) ==
    IF force THEN TRUE
    ELSE IF last = None THEN TRUE
    ELSE IF Days(t - last) = MAX_AGE_DAYS THEN TRUE
    ELSE IF last < get_retail_update_time(t) /\ get_retail_update_time(t) <= t THEN TRUE
    ELSE FALSE

should_update_retail_never_first(force, t, last) ==
    IF force THEN TRUE
    ELSE IF last = None THEN FALSE
    ELSE IF Days(t - last) >= MAX_AGE_DAYS THEN TRUE
    ELSE IF last < get_retail_update_time(t) /\ get_retail_update_time(t) <= t THEN TRUE
    ELSE FALSE

should_update_retail(force, t, last) ==
    IF force THEN TRUE
    ELSE IF last = None THEN TRUE
    ELSE IF Days(t - last) >= MAX_AGE_DAYS THEN TRUE
    ELSE IF last < get_retail_update_time(t) /\ get_retail_update_time(t) <= t THEN TRUE
    ELSE FALSE

Sources == {"eia", "rbob", "retail"}

\* the should_update_* call update_bronze_layer makes for a source
should_update(source, force, t, last) ==
    CASE source = "eia" -> should_update_eia(force, t, last)
      [] source = "rbob" -> should_update_rbob(force, t, last)
      [] source = "retail" -> should_update_retail(force, t, last)


(***************************************************************************)
(* The units of a cycle, in the order the code runs them.                  *)
(***************************************************************************)
\* an update_bronze_layer that stops after the second source
SourceOrder_without_retail == <<"eia", "rbob">>

\* update_bronze_layer: EIA, then RBOB, then Retail
SourceOrder == <<"eia", "rbob", "retail">>
\* update_silver_layer: silver_scripts (mandatory), then optional_scripts
SilverScripts == <<"clean_rbob_to_silver.py", "clean_retail_to_silver.py", "clean_eia_to_silver.py">>
OptionalScripts == <<"download_padd3_share.py", "download_noaa_temp.py", "process_hurricane_risk_october.py">>
\* update_pipeline.update_gold: the only Gold rebuild script of the repository
GoldScript == "build_gold_layer.py"

\* the download script update_bronze_layer runs for a source
SourceScript(source) ==
    CASE source = "eia" -> "download_eia_data_bronze.py"
      [] source = "rbob" -> "download_rbob_data_bronze.py"
      [] source = "retail" -> "download_retail_prices_bronze.py"

SeqSet(q) == {q[i] : i \in 1..Len(q)}
SourceScriptSet == {SourceScript(s) : s \in Sources}

(***************************************************************************)
(* State.                                                                  *)
(*  On disk:  bronzeMeta[s]  = last_download of bronze/<s>_metadata.json   *)
(*            silverMeta     = silver/silver_processing_metadata.json      *)
(*  Clock:    now                                                          *)
(*  Process:  program, daemon, check_interval (the command line),           *)
(*            force (the force argument of the cycle),                     *)
(*            pc (the unit the cycle is at), idx (its index in its list),  *)
(*            attempt (run_script's loop variable, 0 outside the loop),    *)
(*            max_retries, bronze_results, all_success, exit_code          *)
(*  History:  cycles (cycles started), invoked (scripts run_script was     *)
(*            called on in this cycle), log (outcomes of the attempts of   *)
(*            the current or last run_script call), run_result (what that  *)
(*            call returned), decision (what should_update_* answered in   *)
(*            this cycle), silverBuiltCycle (the cycle that last wrote     *)
(*            silverMeta, None if none did), sleeps (the time.sleep calls  *)
(*            of the current or last retry loop, in milliseconds), abort   *)
(*            (how the cycle was cut short: "none", "exception",           *)
(*            "interrupt")                                                 *)
(*  Elsewhere: add_jitter (argument of run_script_with_retry),             *)
(*            script_exists (script_path.exists() of that call),           *)
(*            read_result[s] (what the last get_last_download_time(s) of   *)
(*            the process returned), write_error (the sources whose        *)
(*            save_download_time caught an exception in this process)      *)
(*  In SpecStore bronzeMeta[s] may also be Corrupt: the file exists but is *)
(*  empty, partly written or not parseable.                                *)
(*  update_pipeline.py: needs[l] (needs_bronze, needs_silver, needs_gold   *)
(*            of smart_update), mtime[l] (the data directory of layer l:   *)
(*            None if it does not exist, DATETIME_MIN if it holds no       *)
(*            .parquet or .csv file, else the latest modification time of  *)
(*            such a file)                                                 *)
(***************************************************************************)
VARIABLES now, bronzeMeta, silverMeta,
          program, daemon, force, check_interval, pc, idx, attempt, max_retries,
          bronze_results, all_success, exit_code,
          cycles, invoked, log, run_result, decision, silverBuiltCycle,
          sleeps, abort, add_jitter, script_exists, read_result, write_error,
          needs, mtime

vars == <<now, bronzeMeta, silverMeta,
          program, daemon, force, check_interval, pc, idx, attempt, max_retries,
          bronze_results, all_success, exit_code,
          cycles, invoked, log, run_result, decision, silverBuiltCycle,
          sleeps, abort, add_jitter, script_exists, read_result, write_error,
          needs, mtime>>

\* the variables the orchestrator's cycle never touches
otherVars == <<add_jitter, script_exists, read_result, write_error, needs, mtime>>

NoReads == [s \in Sources |-> None]
\* update_pipeline.py: the layers, in the order smart_update treats them
LayerOrder == <<"bronze", "silver", "gold">>
Layers == SeqSet(LayerOrder)
\* smart_update has not looked at any layer
NoNeeds == [l \in Layers |-> FALSE]
\* none of data/bronze, data/silver, data/gold exists
NoFiles == [l \in Layers |-> None]
NoSilver == [last_processed |-> None, bronze_sources_processed |-> [s \in Sources |-> None]]

(***************************************************************************)
(* metadata.py and the Silver record of automate_bronze_silver.py          *)
(***************************************************************************)
\* a mis-keyed write: the record of another source is overwritten
save_download_time_wrong_key(meta, source, t) ==
    [meta EXCEPT !["eia"] = t]

\* a write of a timestamp that runs against the clock
save_download_time_backwards(meta, source, t) ==
    [meta EXCEPT ![source] = 2 * WeekTicks - t]

\* save_download_time: last_download := datetime.now()
save_download_time(meta, source, t) ==
    [meta EXCEPT ![source] = t]

\* save_processing_time: last_processed := now, plus the sources' timestamps
save_processing_time(meta, t) ==
    [last_processed |-> t, bronze_sources_processed |-> [s \in Sources |-> meta[s]]]

should_rebuild_silver_ignores_force(f, silver, meta) ==
    IF silver.last_processed = None THEN TRUE
    ELSE \E s \in Sources : meta[s] # None /\ meta[s] > silver.last_processed

should_rebuild_silver_not_older(f, silver, meta) ==
    IF f THEN TRUE
    ELSE IF silver.last_processed = None THEN TRUE
    ELSE \E s \in Sources : meta[s] # None /\ meta[s] >= silver.last_processed

should_rebuild_silver_two_sources(f, silver, meta) ==
    IF f THEN TRUE
    ELSE IF silver.last_processed = None THEN TRUE
    ELSE \E s \in {"eia", "rbob"} : meta[s] # None /\ meta[s] > silver.last_processed

\* should_rebuild_silver: a source's last_download newer than last_processed
should_rebuild_silver(f, silver, meta) ==
    IF f THEN TRUE
    ELSE IF silver.last_processed = None THEN TRUE
    ELSE \E s \in Sources : meta[s] # None /\ meta[s] > silver.last_processed

(***************************************************************************)
(* run_script: the retry loop "for attempt in range(1, max_retries + 1)".  *)
(***************************************************************************)
\* the base of the backoff: wait_time = 30 * attempt seconds
BACKOFF_BASE_SECONDS == 30

\* run_script: "wait_time = 30 * attempt", in milliseconds
wait_time(a) == BACKOFF_BASE_SECONDS * a * 1000

more_attempts_off_by_one(a, n) == a <= n

\* after a failed attempt a: is there another one (attempt < max_retries)?
more_attempts(a, n) == a < n


Unset == [s \in Sources |-> "unset"]

\* the places of a cycle in progress: update_bronze_layer, the mandatory and
\* the optional scripts of update_silver_layer
CyclePcs == {"bronze", "silver", "optional"}

\* the clock reading at which the first process of a behaviour starts:
\* Friday 21:30, in the last market hour of the week
StartTimes == {4 * DayTicks + RBOB_MARKET_CLOSE_HOUR * TicksPerHour + 1}
\* the time between the end of a process and the start of the next one
Gaps == {1, TicksPerHour, WeekTicks}
\* --interval: 3600 seconds (the default)
Intervals == {TicksPerHour}

Init ==
    /\ now \in StartTimes
    /\ bronzeMeta = [s \in Sources |-> None]
    /\ silverMeta = NoSilver
    /\ program = "bronze_silver"
    /\ daemon = FALSE
    /\ force = FALSE
    /\ check_interval = TicksPerHour
    /\ pc = "idle"
    /\ idx = 1
    /\ attempt = 0
    /\ max_retries = DEFAULT_MAX_RETRIES
    /\ bronze_results = Unset
    /\ all_success = TRUE
    /\ exit_code = None
    /\ cycles = 0
    /\ invoked = {}
    /\ log = <<>>
    /\ run_result = "none"
    /\ decision = Unset
    /\ silverBuiltCycle = None
    /\ sleeps = <<>>
    /\ abort = "none"
    /\ add_jitter = FALSE
    /\ script_exists = TRUE
    /\ read_result = NoReads
    /\ write_error = {}
    /\ needs = NoNeeds
    /\ mtime = NoFiles

\* run_pipeline / update_bronze_layer start: everything a cycle owns is fresh
StartCycle ==
    /\ pc' = "bronze"
    /\ idx' = 1
    /\ attempt' = 0
    /\ max_retries' = DEFAULT_MAX_RETRIES
    /\ bronze_results' = Unset
    /\ all_success' = TRUE
    /\ exit_code' = None
    /\ cycles' = cycles + 1
    /\ invoked' = {}
    /\ log' = <<>>
    /\ run_result' = "none"
    /\ decision' = Unset
    /\ sleeps' = <<>>
    /\ abort' = "none"
    /\ UNCHANGED <<bronzeMeta, silverMeta, silverBuiltCycle>>
    /\ UNCHANGED otherVars

\* a main() that hands --force on to the daemon's cycles
Invoke_daemon_keeps_force(prog, d, f, interval, gap) ==
    /\ pc = "idle"
    /\ cycles < MaxCycles
    /\ now' = now + gap
    /\ program' = prog
    /\ daemon' = d
    /\ force' = f
    /\ check_interval' = IF d THEN interval ELSE TicksPerHour
    /\ StartCycle

\* main(): parse --daemon, --interval, --force; run_daemon runs every cycle
\* with force=False, the one-shot run passes args.force on
Invoke(prog, d, f, interval, gap) ==
    /\ pc = "idle"
    /\ cycles < MaxCycles
    /\ now' = now + gap
    /\ program' = prog
    /\ daemon' = d
    /\ force' = IF d THEN FALSE ELSE f
    /\ check_interval' = IF d THEN interval ELSE TicksPerHour
    /\ StartCycle

\* a daemon that leaves its loop when a cycle ends in failure
EndCycle_daemon_exits_on_failure(code) ==
    /\ idx' = 1
    /\ IF daemon /\ code = 0
       THEN pc' = "sleep" /\ exit_code' = None
       ELSE pc' = "idle" /\ exit_code' = code

\* the end of a cycle: the one-shot process exits with code, the daemon sleeps
EndCycle(code) ==
    /\ idx' = 1
    /\ IF daemon
       THEN pc' = "sleep" /\ exit_code' = None
       ELSE pc' = "idle" /\ exit_code' = code

\* bronze_updated = any(r is True for r in bronze_results.values())
BronzeUpdated(res) == \E s \in Sources : res[s] = "True"

\* What the cycle does once the unit at (pc, idx) is over, with the results res,
\* all_success allok and the Bronze records meta as that unit left them, at
\* clock reading t: the next unit; after the last source the exit code of
\* automate_bronze.main or run_pipeline's Silver decision; after the last
\* optional script the end of update_silver_layer and of run_pipeline.
AfterUnit(res, allok, meta, t) ==
    CASE pc = "bronze" /\ idx < Len(SourceOrder) ->
            /\ pc' = "bronze" /\ idx' = idx + 1
            /\ UNCHANGED <<exit_code, silverMeta, silverBuiltCycle>>
      [] pc = "bronze" /\ idx = Len(SourceOrder) /\ program = "bronze" ->
            /\ EndCycle(IF \E s \in Sources : res[s] = "False" THEN 1 ELSE 0)
            /\ UNCHANGED <<silverMeta, silverBuiltCycle>>
      [] pc = "bronze" /\ idx = Len(SourceOrder) /\ program = "bronze_silver" ->
            /\ IF BronzeUpdated(res) \/ should_rebuild_silver(force, silverMeta, meta)
               THEN pc' = "silver" /\ idx' = 1 /\ exit_code' = exit_code
               ELSE EndCycle(0)
            /\ UNCHANGED <<silverMeta, silverBuiltCycle>>
      [] pc = "silver" /\ idx < Len(SilverScripts) ->
            /\ pc' = "silver" /\ idx' = idx + 1
            /\ UNCHANGED <<exit_code, silverMeta, silverBuiltCycle>>
      [] pc = "silver" /\ idx = Len(SilverScripts) ->
            /\ pc' = "optional" /\ idx' = 1
            /\ UNCHANGED <<exit_code, silverMeta, silverBuiltCycle>>
      [] pc = "optional" /\ idx < Len(OptionalScripts) ->
            /\ pc' = "optional" /\ idx' = idx + 1
            /\ UNCHANGED <<exit_code, silverMeta, silverBuiltCycle>>
      [] pc = "optional" /\ idx = Len(OptionalScripts) ->
            /\ silverMeta' = IF allok THEN save_processing_time(meta, t) ELSE silverMeta
            /\ silverBuiltCycle' = IF allok THEN cycles ELSE silverBuiltCycle
            /\ EndCycle(IF allok THEN 0 ELSE 1)

\* an update_silver_layer that folds the result of an optional script into
\* all_success as well
Return_optional_counts(ok, t) ==
    /\ attempt' = 0
    /\ CASE pc = "bronze" ->
              LET s == SourceOrder[idx]
                  meta == IF ok THEN save_download_time(bronzeMeta, s, t) ELSE bronzeMeta
                  res == [bronze_results EXCEPT ![s] = IF ok THEN "True" ELSE "False"]
              IN  /\ bronzeMeta' = meta
                  /\ bronze_results' = res
                  /\ all_success' = all_success
                  /\ AfterUnit(res, all_success, meta, t)
         [] pc \in {"silver", "optional"} ->
              /\ all_success' = (all_success /\ ok)
              /\ UNCHANGED <<bronzeMeta, bronze_results>>
              /\ AfterUnit(bronze_results, all_success /\ ok, bronzeMeta, t)

\* The caller's code after run_script returned ok at clock reading t:
\* update_bronze_layer saves the download time of a success and stores the
\* result; update_silver_layer folds a mandatory result into all_success and
\* drops an optional one.
Return(ok, t) ==
    /\ attempt' = 0
    /\ CASE pc = "bronze" ->
              LET s == SourceOrder[idx]
                  meta == IF ok THEN save_download_time(bronzeMeta, s, t) ELSE bronzeMeta
                  res == [bronze_results EXCEPT ![s] = IF ok THEN "True" ELSE "False"]
              IN  /\ bronzeMeta' = meta
                  /\ bronze_results' = res
                  /\ all_success' = all_success
                  /\ AfterUnit(res, all_success, meta, t)
         [] pc = "silver" ->
              /\ all_success' = (all_success /\ ok)
              /\ UNCHANGED <<bronzeMeta, bronze_results>>
              /\ AfterUnit(bronze_results, all_success /\ ok, bronzeMeta, t)
         [] pc = "optional" ->
              /\ UNCHANGED <<bronzeMeta, bronze_results, all_success>>
              /\ AfterUnit(bronze_results, all_success, bronzeMeta, t)

\* run_script up to its loop: "if not script_path.exists(): return False"
Call(script, retries) ==
    /\ invoked' = invoked \cup {script}
    /\ log' = <<>>
    /\ sleeps' = <<>>
    /\ max_retries' = retries
    /\ now' = now
    /\ \E exists \in BOOLEAN :
          IF exists
          THEN /\ attempt' = 1
               /\ run_result' = "running"
               /\ UNCHANGED <<pc, idx, bronzeMeta, silverMeta, bronze_results,
                              all_success, exit_code, silverBuiltCycle>>
          ELSE /\ run_result' = "missing"
               /\ Return(FALSE, now)

\* update_bronze_layer, one source: should_update_X(force), then either
\* results[X] = None or the call of run_script on its download script
EvaluateSource ==
    /\ pc = "bronze"
    /\ attempt = 0
    /\ LET s == SourceOrder[idx]
           due == should_update(s, force, now, bronzeMeta[s])
       IN  /\ decision' = [decision EXCEPT ![s] = IF due THEN "due" ELSE "fresh"]
           /\ IF due
              THEN Call(SourceScript(s), DEFAULT_MAX_RETRIES)
              ELSE /\ bronze_results' = [bronze_results EXCEPT ![s] = "None"]
                   /\ AfterUnit(bronze_results', all_success, bronzeMeta, now)
                   /\ UNCHANGED <<now, bronzeMeta, attempt, max_retries, all_success,
                                  invoked, log, run_result, sleeps>>
    /\ UNCHANGED <<program, daemon, force, check_interval, cycles, abort, otherVars>>

\* update_silver_layer, one mandatory script: run_script(SCRIPTS_DIR / name)
StartSilverScript ==
    /\ pc = "silver"
    /\ attempt = 0
    /\ Call(SilverScripts[idx], DEFAULT_MAX_RETRIES)
    /\ UNCHANGED <<program, daemon, force, check_interval, cycles, decision,
                   abort, otherVars>>

\* update_silver_layer, one optional script: run only if script_path.exists()
StartOptionalScript ==
    /\ pc = "optional"
    /\ attempt = 0
    /\ \E present \in BOOLEAN :
          IF present
          THEN Call(OptionalScripts[idx], OPTIONAL_MAX_RETRIES)
          ELSE /\ AfterUnit(bronze_results, all_success, bronzeMeta, now)
               /\ UNCHANGED <<now, bronzeMeta, bronze_results, all_success, attempt,
                              max_retries, invoked, log, run_result, sleeps>>
    /\ UNCHANGED <<program, daemon, force, check_interval, cycles, decision,
                   abort, otherVars>>

\* run_script, one attempt: subprocess.run returns with exit status 0
AttemptSucceeds ==
    /\ pc \in CyclePcs
    /\ attempt >= 1
    /\ now' = now
    /\ log' = Append(log, "ok")
    /\ run_result' = "True"
    /\ Return(TRUE, now)
    /\ UNCHANGED <<program, daemon, force, check_interval, cycles, decision,
                   invoked, max_retries, sleeps, abort, otherVars>>

\* run_script, one attempt: TimeoutExpired or CalledProcessError; sleep and go
\* round again if attempt < max_retries, else "return False"
AttemptFails ==
    /\ pc \in CyclePcs
    /\ attempt >= 1
    /\ now' = now
    /\ log' = Append(log, "failed")
    /\ IF more_attempts(attempt, max_retries)
       THEN /\ attempt' = attempt + 1
            /\ run_result' = "running"
            /\ sleeps' = Append(sleeps, wait_time(attempt))
            /\ UNCHANGED <<pc, idx, bronzeMeta, silverMeta, bronze_results,
                           all_success, exit_code, silverBuiltCycle>>
       ELSE /\ run_result' = "False"
            /\ sleeps' = sleeps
            /\ Return(FALSE, now)
    /\ UNCHANGED <<program, daemon, force, check_interval, cycles, decision,
                   invoked, max_retries, abort, otherVars>>

\* run_script, one attempt: subprocess.run raises something else (an OSError),
\* which run_script does not catch; it leaves update_*_layer and run_pipeline.
\* run_daemon catches it ("except Exception"), logs it and sleeps; in a
\* one-shot process it ends the interpreter with status 1.
AttemptRaises ==
    /\ pc \in CyclePcs
    /\ attempt >= 1
    /\ log' = Append(log, "raised")
    /\ run_result' = "raised"
    /\ attempt' = 0
    /\ abort' = "exception"
    /\ EndCycle(1)
    /\ UNCHANGED <<now, bronzeMeta, silverMeta, program, daemon, force, check_interval,
                   max_retries, bronze_results, all_success, cycles, invoked,
                   decision, silverBuiltCycle, sleeps, otherVars>>

\* run_daemon: time.sleep(check_interval), then the next run_pipeline(force=False)
DaemonWake ==
    /\ pc = "sleep"
    /\ cycles < MaxCycles
    /\ now' = now + check_interval
    /\ StartCycle
    /\ UNCHANGED <<program, daemon, force, check_interval>>

\* run_daemon: KeyboardInterrupt ends the loop and main returns.  It is raised
\* wherever the process is, in time.sleep or inside run_pipeline: "except
\* Exception" does not catch it, so a cycle in progress is left where it is.
Interrupt ==
    /\ daemon
    /\ pc \in CyclePcs \cup {"sleep"}
    /\ pc' = "idle"
    /\ exit_code' = 0
    /\ abort' = "interrupt"
    /\ attempt' = 0
    /\ run_result' = IF attempt >= 1 THEN "interrupted" ELSE run_result
    /\ UNCHANGED <<now, bronzeMeta, silverMeta, program, daemon, force, check_interval,
                   idx, max_retries, bronze_results, all_success,
                   cycles, invoked, log, decision, silverBuiltCycle, sleeps, otherVars>>

Next ==
    \/ \E prog \in {"bronze_silver", "bronze"}, d \in BOOLEAN, f \in BOOLEAN,
          interval \in Intervals, gap \in Gaps : Invoke(prog, d, f, interval, gap)
    \/ EvaluateSource
    \/ StartSilverScript
    \/ StartOptionalScript
    \/ AttemptSucceeds
    \/ AttemptFails
    \/ AttemptRaises
    \/ DaemonWake
    \/ Interrupt

Spec == Init /\ [][Next]_vars


(***************************************************************************)
(* The staleness decisions as functions of the clock and the record:       *)
(* every clock reading of one week, every age of the record up to          *)
(* MAX_AGE_DAYS days and MaxAgeSlack ticks, no record at all, force or not.*)
(***************************************************************************)
DueNows == (2 * WeekTicks)..(3 * WeekTicks - 1)
DueAges == 0..(MAX_AGE_DAYS * DayTicks + MaxAgeSlack)

InitDue ==
    /\ now \in DueNows
    /\ \E last \in {None} \cup {now - a : a \in DueAges} :
          bronzeMeta = [s \in Sources |-> last]
    /\ force \in BOOLEAN
    /\ pc = "is_due"
    /\ silverMeta = NoSilver
    /\ program = "bronze_silver"
    /\ daemon = FALSE
    /\ check_interval = TicksPerHour
    /\ idx = 1
    /\ attempt = 0
    /\ max_retries = DEFAULT_MAX_RETRIES
    /\ bronze_results = Unset
    /\ all_success = TRUE
    /\ exit_code = None
    /\ cycles = 0
    /\ invoked = {}
    /\ log = <<>>
    /\ run_result = "none"
    /\ decision = Unset
    /\ silverBuiltCycle = None
    /\ sleeps = <<>>
    /\ abort = "none"
    /\ add_jitter = FALSE
    /\ script_exists = TRUE
    /\ read_result = NoReads
    /\ write_error = {}
    /\ needs = NoNeeds
    /\ mtime = NoFiles

\* should_update_eia, should_update_rbob and should_update_retail on one input
EvaluateDue ==
    /\ pc = "is_due"
    /\ pc' = "evaluated"
    /\ decision' = [s \in Sources |->
                      IF should_update(s, force, now, bronzeMeta[s]) THEN "due" ELSE "fresh"]
    /\ UNCHANGED <<now, bronzeMeta, silverMeta, program, daemon, force, check_interval,
                   idx, attempt, max_retries, bronze_results, all_success, exit_code,
                   cycles, invoked, log, run_result, silverBuiltCycle,
                   sleeps, abort, otherVars>>

NextDue == EvaluateDue

SpecDue == InitDue /\ [][NextDue]_vars


(***************************************************************************)
(* script_runner.py: run_script_with_retry(script_path, description,       *)
(* max_retries, timeout, add_jitter) on its own, for every max_retries up  *)
(* to MaxRunnerRetries, a script that exists or not, jitter or not.        *)
(* random.random() is drawn from RandomDraws, in thousandths; a sleep is   *)
(* recorded in milliseconds.                                               *)
(***************************************************************************)
MaxRunnerRetries == 4
RandomDraws == {0, 500, 999}

\* a jitter that forgets the "1 +"
calculate_backoff_jitter_only(a, jitter, r) ==
    IF jitter THEN (wait_time(a) * (r * 4 - 2000)) \div 10000 ELSE wait_time(a)

\* _calculate_backoff: base_wait = 30 * attempt, times
\* jitter_factor = 1 + (random.random() * 0.4 - 0.2) if add_jitter
calculate_backoff(a, jitter, r) ==
    IF jitter THEN (wait_time(a) * (10000 + (r * 4 - 2000))) \div 10000 ELSE wait_time(a)

\* a runner that does not look whether the script is there
enters_loop_without_check(exists, n) == more_attempts(0, n)

\* the loop "for attempt in range(1, max_retries + 1)" is entered: the script
\* exists ("if not script_path.exists(): return False") and the range is not empty
enters_loop(exists, n) == exists /\ more_attempts(0, n)

InitRunner ==
    /\ max_retries \in 0..MaxRunnerRetries
    /\ add_jitter \in BOOLEAN
    /\ script_exists \in BOOLEAN
    /\ pc = "runner_call"
    /\ attempt = 0
    /\ log = <<>>
    /\ sleeps = <<>>
    /\ run_result = "none"
    /\ now \in StartTimes
    /\ bronzeMeta = [s \in Sources |-> None]
    /\ silverMeta = NoSilver
    /\ program = "bronze_silver"
    /\ daemon = FALSE
    /\ force = FALSE
    /\ check_interval = TicksPerHour
    /\ idx = 1
    /\ bronze_results = Unset
    /\ all_success = TRUE
    /\ exit_code = None
    /\ cycles = 0
    /\ invoked = {}
    /\ decision = Unset
    /\ silverBuiltCycle = None
    /\ abort = "none"
    /\ read_result = NoReads
    /\ write_error = {}
    /\ needs = NoNeeds
    /\ mtime = NoFiles

\* what run_script_with_retry leaves alone
runnerFrame == <<now, bronzeMeta, silverMeta, program, daemon, force, check_interval,
                 idx, max_retries, bronze_results, all_success, exit_code, cycles,
                 invoked, decision, silverBuiltCycle, abort, add_jitter,
                 script_exists, read_result, write_error, needs, mtime>>

\* the call up to the first attempt
RunnerCall ==
    /\ pc = "runner_call"
    /\ IF enters_loop(script_exists, max_retries)
       THEN pc' = "runner_loop" /\ attempt' = 1 /\ run_result' = "running"
       ELSE /\ pc' = "runner_done" /\ attempt' = 0
            /\ run_result' = IF script_exists THEN "False" ELSE "missing"
    /\ UNCHANGED <<log, sleeps>>
    /\ UNCHANGED runnerFrame

\* one attempt: subprocess.run returns with exit status 0, "return True"
RunnerAttemptSucceeds ==
    /\ pc = "runner_loop"
    /\ log' = Append(log, "ok")
    /\ run_result' = "True"
    /\ pc' = "runner_done"
    /\ attempt' = 0
    /\ UNCHANGED sleeps
    /\ UNCHANGED runnerFrame

\* one attempt: TimeoutExpired, CalledProcessError or any other Exception;
\* "if attempt < max_retries" sleep _calculate_backoff(attempt, add_jitter)
RunnerAttemptFails(r) ==
    /\ pc = "runner_loop"
    /\ log' = Append(log, "failed")
    /\ IF more_attempts(attempt, max_retries)
       THEN /\ sleeps' = Append(sleeps, calculate_backoff(attempt, add_jitter, r))
            /\ attempt' = attempt + 1
            /\ UNCHANGED <<pc, run_result>>
       ELSE /\ run_result' = "False"
            /\ pc' = "runner_done"
            /\ attempt' = 0
            /\ UNCHANGED sleeps
    /\ UNCHANGED runnerFrame

NextRunner ==
    \/ RunnerCall
    \/ RunnerAttemptSucceeds
    \/ \E r \in RandomDraws : RunnerAttemptFails(r)

SpecRunner == InitRunner /\ [][NextRunner]_vars


(***************************************************************************)
(* The store under faults: one-shot runs of run_pipeline in which a write  *)
(* of a Bronze record is the sequence open(file, 'w') (which truncates the *)
(* file), json.dump, close; each step may raise, and the process may stop  *)
(* between them.  Every source starts with a complete record one week old  *)
(* and Silver with a record of the same time.  run_script is taken at its  *)
(* return value; the Silver record is written without faults.              *)
(***************************************************************************)
\* content of a file that exists but holds no complete record
Corrupt == -2

\* get_last_download_time: None if the file does not exist, None (and a
\* warning) if reading or parsing it raises, else its last_download
get_last_download_time(meta, source) ==
    IF meta[source] = None THEN None
    ELSE IF meta[source] = Corrupt THEN None
    ELSE meta[source]

\* what the reads of the three records return
Reads(meta) == [s \in Sources |-> get_last_download_time(meta, s)]

StoreGaps == {1, WeekTicks}

InitStore ==
    /\ now \in {t + WeekTicks : t \in StartTimes}
    /\ bronzeMeta = [s \in Sources |-> now - WeekTicks]
    /\ silverMeta = save_processing_time([s \in Sources |-> now - WeekTicks], now - WeekTicks)
    /\ program = "bronze_silver"
    /\ daemon = FALSE
    /\ force = FALSE
    /\ check_interval = TicksPerHour
    /\ pc = "store_idle"
    /\ idx = 1
    /\ attempt = 0
    /\ max_retries = DEFAULT_MAX_RETRIES
    /\ bronze_results = Unset
    /\ all_success = TRUE
    /\ exit_code = None
    /\ cycles = 0
    /\ invoked = {}
    /\ log = <<>>
    /\ run_result = "none"
    /\ decision = Unset
    /\ silverBuiltCycle = None
    /\ sleeps = <<>>
    /\ abort = "none"
    /\ add_jitter = FALSE
    /\ script_exists = TRUE
    /\ read_result = NoReads
    /\ write_error = {}
    /\ needs = NoNeeds
    /\ mtime = NoFiles

\* what a run of the pipeline never touches here
storeFrame == <<program, daemon, check_interval, attempt, max_retries, log, sleeps,
                add_jitter, script_exists, needs, mtime>>

\* main(): a one-shot process starts, with or without --force; abort still
\* tells how the process before it ended
StoreStart(f, gap) ==
    /\ pc = "store_idle"
    /\ cycles < MaxCycles
    /\ now' = now + gap
    /\ force' = f
    /\ pc' = "store_bronze"
    /\ idx' = 1
    /\ cycles' = cycles + 1
    /\ bronze_results' = Unset
    /\ decision' = Unset
    /\ read_result' = NoReads
    /\ write_error' = {}
    /\ invoked' = {}
    /\ all_success' = TRUE
    /\ exit_code' = None
    /\ run_result' = "none"
    /\ UNCHANGED <<bronzeMeta, silverMeta, silverBuiltCycle, abort>>
    /\ UNCHANGED storeFrame

\* update_bronze_layer after the source at idx: the next source, or back in
\* run_pipeline at the Silver decision
StoreAfterSource ==
    IF idx < Len(SourceOrder)
    THEN pc' = "store_bronze" /\ idx' = idx + 1
    ELSE pc' = "store_silver" /\ idx' = 1

\* update_bronze_layer, one source: should_update_X(force) reads the record;
\* if due, run_script on the download script returns ok; on success
\* save_download_time is entered
StoreEvaluate ==
    /\ pc = "store_bronze"
    /\ LET s == SourceOrder[idx]
           last == get_last_download_time(bronzeMeta, s)
           due == should_update(s, force, now, last)
       IN  /\ read_result' = [read_result EXCEPT ![s] = last]
           /\ decision' = [decision EXCEPT ![s] = IF due THEN "due" ELSE "fresh"]
           /\ IF due
              THEN /\ invoked' = invoked \cup {SourceScript(s)}
                   /\ \E ok \in BOOLEAN :
                         IF ok
                         THEN /\ run_result' = "True"
                              /\ pc' = "store_write"
                              /\ UNCHANGED <<idx, bronze_results>>
                         ELSE /\ run_result' = "False"
                              /\ bronze_results' = [bronze_results EXCEPT ![s] = "False"]
                              /\ StoreAfterSource
              ELSE /\ bronze_results' = [bronze_results EXCEPT ![s] = "None"]
                   /\ StoreAfterSource
                   /\ UNCHANGED <<invoked, run_result>>
    /\ UNCHANGED <<now, bronzeMeta, silverMeta, force, all_success, exit_code, cycles,
                   silverBuiltCycle, abort, write_error>>
    /\ UNCHANGED storeFrame

\* save_download_time: open(metadata_file, 'w').  It truncates the file, or it
\* raises; the exception is caught and logged, and update_bronze_layer goes on
\* with results[source] = success
StoreWriteOpen ==
    /\ pc = "store_write"
    /\ LET s == SourceOrder[idx]
       IN  \E opened \in BOOLEAN :
              IF opened
              THEN /\ bronzeMeta' = [bronzeMeta EXCEPT ![s] = Corrupt]
                   /\ pc' = "store_dump"
                   /\ UNCHANGED <<idx, bronze_results, write_error>>
              ELSE /\ write_error' = write_error \cup {s}
                   /\ bronze_results' = [bronze_results EXCEPT ![s] = "True"]
                   /\ StoreAfterSource
                   /\ UNCHANGED bronzeMeta
    /\ UNCHANGED <<now, silverMeta, force, all_success, exit_code, cycles, invoked,
                   run_result, decision, silverBuiltCycle, abort, read_result>>
    /\ UNCHANGED storeFrame

\* save_download_time: json.dump and the close of the file.  The record is
\* complete, or an exception (caught and logged) leaves the file as it is
StoreWriteDump ==
    /\ pc = "store_dump"
    /\ LET s == SourceOrder[idx]
       IN  /\ \E written \in BOOLEAN :
                 IF written
                 THEN /\ bronzeMeta' = save_download_time(bronzeMeta, s, now)
                      /\ UNCHANGED write_error
                 ELSE /\ write_error' = write_error \cup {s}
                      /\ UNCHANGED bronzeMeta
           /\ bronze_results' = [bronze_results EXCEPT ![s] = "True"]
           /\ StoreAfterSource
    /\ UNCHANGED <<now, silverMeta, force, all_success, exit_code, cycles, invoked,
                   run_result, decision, silverBuiltCycle, abort, read_result>>
    /\ UNCHANGED storeFrame

\* the process stops inside save_download_time (killed, power lost)
StoreCrash ==
    /\ pc \in {"store_write", "store_dump"}
    /\ pc' = "store_idle"
    /\ abort' = "crash"
    /\ UNCHANGED <<now, bronzeMeta, silverMeta, force, idx, bronze_results, all_success,
                   exit_code, cycles, invoked, run_result, decision, silverBuiltCycle,
                   read_result, write_error>>
    /\ UNCHANGED storeFrame

\* run_pipeline after update_bronze_layer: "if bronze_updated or
\* should_rebuild_silver(force)" update_silver_layer, whose mandatory scripts
\* all succeed or not; save_processing_time on success; the return value
StoreSilver ==
    /\ pc = "store_silver"
    /\ pc' = "store_idle"
    /\ abort' = "none"
    /\ IF BronzeUpdated(bronze_results)
          \/ should_rebuild_silver(force, silverMeta, Reads(bronzeMeta))
       THEN /\ invoked' = invoked \cup SeqSet(SilverScripts)
            /\ \E ok \in BOOLEAN :
                  /\ all_success' = ok
                  /\ silverMeta' = IF ok THEN save_processing_time(Reads(bronzeMeta), now)
                                         ELSE silverMeta
                  /\ silverBuiltCycle' = IF ok THEN cycles ELSE silverBuiltCycle
                  /\ exit_code' = IF ok THEN 0 ELSE 1
       ELSE /\ exit_code' = 0
            /\ UNCHANGED <<invoked, all_success, silverMeta, silverBuiltCycle>>
    /\ UNCHANGED <<now, bronzeMeta, force, idx, bronze_results, cycles, run_result,
                   decision, read_result, write_error>>
    /\ UNCHANGED storeFrame

NextStore ==
    \/ \E f \in BOOLEAN, gap \in StoreGaps : StoreStart(f, gap)
    \/ StoreEvaluate
    \/ StoreWriteOpen
    \/ StoreWriteDump
    \/ StoreCrash
    \/ StoreSilver

SpecStore == InitStore /\ [][NextStore]_vars


(***************************************************************************)
(* src/ingestion/eia_client.py: EIAClient.fetch, for max_retries from 1 to *)
(* MaxFetchRetries.  Each request is answered by one of ResponseKinds:     *)
(*   "rows"              status 200, payload {"response": {"data": [...]}} *)
(*   "http_error"        raise_for_status raises requests.HTTPError        *)
(*   "request_exception" session.get raises a requests.RequestException    *)
(*   "bad_json"          response.json() raises ValueError                 *)
(*   "no_data_key"       payload without "response" or without "data"      *)
(*   "no_rows"           payload whose data is empty                       *)
(*   "null_response"     payload {"response": null}: the test              *)
(*                       '"data" not in payload["response"]' raises        *)
(*                       TypeError                                         *)
(* log is the sequence of answers, sleeps the time.sleep calls in          *)
(* milliseconds, run_result how fetch ended.                               *)
(***************************************************************************)
MaxFetchRetries == 3
ResponseKinds == {"rows", "http_error", "request_exception", "bad_json",
                  "no_data_key", "no_rows", "null_response"}

\* backoff_factor: float = 1.5, in tenths
BACKOFF_FACTOR_TENTHS == 15

RECURSIVE Pow(_, _)
Pow(b, k) == IF k = 0 THEN 1 ELSE b * Pow(b, k - 1)

\* sleep_seconds = self.backoff_factor ** (attempt - 1), in milliseconds
sleep_seconds(a) == (1000 * Pow(BACKOFF_FACTOR_TENTHS, a - 1)) \div Pow(10, a - 1)

\* _to_dataframe: what it does with a response of status 200
to_dataframe(kind) ==
    CASE kind = "bad_json" -> "EIAClientError"
      [] kind = "null_response" -> "TypeError"
      [] kind = "no_data_key" -> "EIAClientError"
      [] kind = "no_rows" -> "EIAClientError"
      [] kind = "rows" -> "DataFrame"

\* the body of the try block: session.get, raise_for_status, _to_dataframe
try_request(kind) ==
    CASE kind = "request_exception" -> "RequestException"
      [] kind = "http_error" -> "RequestException"
      [] OTHER -> to_dataframe(kind)

InitFetch ==
    /\ max_retries \in 1..MaxFetchRetries
    /\ pc = "fetch"
    /\ attempt = 0
    /\ log = <<>>
    /\ sleeps = <<>>
    /\ run_result = "none"
    /\ now \in StartTimes
    /\ bronzeMeta = [s \in Sources |-> None]
    /\ silverMeta = NoSilver
    /\ program = "bronze_silver"
    /\ daemon = FALSE
    /\ force = FALSE
    /\ check_interval = TicksPerHour
    /\ idx = 1
    /\ bronze_results = Unset
    /\ all_success = TRUE
    /\ exit_code = None
    /\ cycles = 0
    /\ invoked = {}
    /\ decision = Unset
    /\ silverBuiltCycle = None
    /\ abort = "none"
    /\ add_jitter = FALSE
    /\ script_exists = TRUE
    /\ read_result = NoReads
    /\ write_error = {}
    /\ needs = NoNeeds
    /\ mtime = NoFiles

\* one round of "while True": attempt += 1, the request, and the except clause
\* for (requests.RequestException, EIAClientError); anything else propagates
FetchRequest(kind) ==
    /\ pc = "fetch"
    /\ attempt' = attempt + 1
    /\ log' = Append(log, kind)
    /\ LET outcome == try_request(kind)
       IN  CASE outcome = "DataFrame" ->
                  /\ run_result' = "returned" /\ pc' = "fetch_done"
                  /\ UNCHANGED sleeps
             [] outcome \in {"RequestException", "EIAClientError"} ->
                  IF attempt' >= max_retries
                  THEN /\ run_result' = "EIAClientError" /\ pc' = "fetch_done"
                       /\ UNCHANGED sleeps
                  ELSE /\ sleeps' = Append(sleeps, sleep_seconds(attempt'))
                       /\ UNCHANGED <<pc, run_result>>
             [] OTHER ->
                  /\ run_result' = outcome /\ pc' = "fetch_done"
                  /\ UNCHANGED sleeps
    /\ UNCHANGED runnerFrame

NextFetch == \E kind \in ResponseKinds : FetchRequest(kind)

SpecFetch == InitFetch /\ [][NextFetch]_vars


(***************************************************************************)
(* Vocabulary of the claims, stated independently of the code above.       *)
(***************************************************************************)
\* a cycle of automate_bronze_silver.py
BronzeSilver == program = "bronze_silver"
\* a one-shot process has run a cycle to its end and exited
OneShotExited == cycles >= 1 /\ ~daemon /\ pc = "idle" /\ exit_code # None /\ abort = "none"
\* the sources of the current cycle have all been dealt with
BronzeDone == cycles >= 1 /\ pc \in {"silver", "optional", "idle", "sleep"} /\ abort = "none"
\* some unit of the cycle ended as a failure: a source, or a mandatory Silver task
AnyUnitFailed == (\E s \in Sources : bronze_results[s] = "False") \/ ~all_success
SilverScriptSet == SeqSet(SilverScripts)
SilverAllScripts == SeqSet(SilverScripts) \cup SeqSet(OptionalScripts)

\* the most recent (weekday day, hour:minute) at or before t
LastPublish(t, day, hour, minute) ==
    LET offset == day * DayTicks + hour * TicksPerHour + (minute \div TickMinutes)
    IN  t - ((t - offset) % WeekTicks)
PublishMoment(source, t) ==
    IF source = "eia"
    THEN LastPublish(t, EIA_UPDATE_DAY, EIA_UPDATE_HOUR, EIA_UPDATE_MINUTE)
    ELSE LastPublish(t, RETAIL_UPDATE_DAY, RETAIL_UPDATE_HOUR, 0)
\* some scheduled publish moment m has last < m <= t
PublishPassed(source, last, t) == last < PublishMoment(source, t)
FixedWeekly == {"eia", "retail"}
\* Monday..Friday, hour of day within open..close (21:00-21:59 included)
InWindow(t) ==
    /\ Weekday(t) \in 0..4
    /\ Hour(t) \in RBOB_MARKET_OPEN_HOUR..RBOB_MARKET_CLOSE_HOUR
Evaluated == pc = "evaluated"

\* Silver's snapshot says a source is newer: the source has a timestamp and the
\* snapshot has none for it or an older one
NewerThanSnapshot(silver, meta) ==
    \E s \in Sources :
       /\ meta[s] # None
       /\ \/ silver.bronze_sources_processed[s] = None
          \/ meta[s] > silver.bronze_sources_processed[s]
\* Silver's record is up to date with every source's current timestamp
SnapshotUpToDate(silver, meta) ==
    /\ silver.last_processed # None
    /\ \A s \in Sources : silver.bronze_sources_processed[s] = meta[s]

(***************************************************************************)
(* C1.  A one-shot run exits with code 1 whenever a unit of the cycle (a   *)
(* source or a layer) ended as a failure, and with code 0 only when every  *)
(* unit succeeded or was skipped.  (run_pipeline returns 1 only for a      *)
(* Silver failure: the statement is violated.)                             *)
(***************************************************************************)
C1_ExitCodeReflectsEveryFailure ==
    OneShotExited => (exit_code = (IF AnyUnitFailed THEN 1 ELSE 0))

(***************************************************************************)
(* C2.  A source's failure does not abort the cycle: once the sources are  *)
(* done and one of them failed, every source has been evaluated, every due *)
(* one was run, every one that succeeded has its record set to the time of *)
(* this cycle, and if one succeeded the Silver rebuild is under way or has *)
(* run all its mandatory scripts.                                          *)
(***************************************************************************)
C2_SourceFailureIsIsolated ==
    (BronzeSilver /\ BronzeDone /\ \E s \in Sources : bronze_results[s] = "False") =>
        /\ \A o \in Sources :
              /\ decision[o] # "unset"
              /\ bronze_results[o] # "unset"
              /\ decision[o] = "due" =>
                    (SourceScript(o) \in invoked /\ bronze_results[o] \in {"True", "False"})
              /\ bronze_results[o] = "True" => bronzeMeta[o] = now
        /\ BronzeUpdated(bronze_results) =>
              (pc \in {"silver", "optional"} \/ SilverScriptSet \subseteq invoked)

\* the last source failed after three failed attempts, the other two were
\* updated, and the cycle has gone on to the Silver rebuild
C2_Witness ==
    /\ BronzeSilver /\ pc = "silver" /\ idx = 1 /\ attempt = 0
    /\ run_result = "False" /\ Len(log) = DEFAULT_MAX_RETRIES
    /\ bronze_results = [s \in Sources |-> IF s = "retail" THEN "False" ELSE "True"]
    /\ bronzeMeta["eia"] = now /\ bronzeMeta["rbob"] = now

C4_RetryBound ==
    LET failed(n) == \A i \in 1..n : log[i] = "failed"
    IN  /\ run_result = "running" =>
              (attempt >= 1 /\ Len(log) = attempt - 1 /\ Len(log) < max_retries
                            /\ failed(Len(log)))
        /\ run_result = "False" => (Len(log) = max_retries /\ failed(Len(log)))
        /\ run_result = "True" =>
              (Len(log) \in 1..max_retries /\ log[Len(log)] = "ok" /\ failed(Len(log) - 1))
        /\ run_result \in {"none", "missing"} => log = <<>>

\* the second of three attempts succeeded and no third was made
C4_Witness ==
    /\ run_result = "True" /\ max_retries = DEFAULT_MAX_RETRIES
    /\ log = <<"failed", "ok">> /\ attempt = 0

(***************************************************************************)
(* C5.  A fixed-weekly source with a record and force=false is due         *)
(* whenever a scheduled publish moment lies after the last success and at  *)
(* or before now.  (get_eia_update_time / get_retail_update_time return    *)
(* the next moment, never one at or before now: the statement is violated.)*)
(***************************************************************************)
C5_DueOncePublished ==
    (Evaluated /\ ~force) =>
        \A s \in FixedWeekly :
            (bronzeMeta[s] # None /\ PublishPassed(s, bronzeMeta[s], now))
                => decision[s] = "due"

(***************************************************************************)
(* C6.  A fixed-weekly source with a record and force=false is due         *)
(* whenever the record is at least 7 days old, and is not due when it is   *)
(* younger and no publish moment lies after it and at or before now.       *)
(***************************************************************************)
C6_MaxAgeRule ==
    (Evaluated /\ ~force) =>
        \A s \in FixedWeekly :
            bronzeMeta[s] # None =>
                /\ now - bronzeMeta[s] >= MAX_AGE_DAYS * DayTicks => decision[s] = "due"
                /\ (now - bronzeMeta[s] < MAX_AGE_DAYS * DayTicks
                      /\ ~PublishPassed(s, bronzeMeta[s], now)) => decision[s] = "fresh"

\* a record exactly 7 days old makes both fixed-weekly sources due
C6_Witness ==
    /\ Evaluated /\ ~force
    /\ bronzeMeta["eia"] = now - MAX_AGE_DAYS * DayTicks
    /\ decision["eia"] = "due" /\ decision["retail"] = "due"

(***************************************************************************)
(* C7.  As claimed: with force=false a source without a record is due at   *)
(* every time, whatever its cadence.  (Violated by the business-hours      *)
(* source outside market hours.)                                           *)
(***************************************************************************)
C7_NoRecordAlwaysDue ==
    (Evaluated /\ ~force) =>
        \A s \in Sources : bronzeMeta[s] = None => decision[s] = "due"

(***************************************************************************)
(* C7, amended.  With force=false a fixed-weekly source without a record   *)
(* is due at every time; the business-hours source without a record is due *)
(* exactly when now is inside the market window.                           *)
(***************************************************************************)
C7_NoRecordDueInsideWindow ==
    (Evaluated /\ ~force) =>
        /\ \A s \in FixedWeekly : bronzeMeta[s] = None => decision[s] = "due"
        /\ bronzeMeta["rbob"] = None => (decision["rbob"] = "due" <=> InWindow(now))

\* no records on a Sunday: EIA and retail are due, RBOB is not
C7_Witness ==
    /\ Evaluated /\ ~force /\ Weekday(now) = 6
    /\ \A s \in Sources : bronzeMeta[s] = None
    /\ decision = [s \in Sources |-> IF s = "rbob" THEN "fresh" ELSE "due"]

C10_NoRedundantRebuild ==
    [][ ( /\ BronzeSilver /\ ~force
          /\ pc = "bronze" /\ pc' # "bronze"
          /\ ~BronzeUpdated(bronze_results')
          /\ \/ SnapshotUpToDate(silverMeta, bronzeMeta')
             \/ silverBuiltCycle = cycles - 1 )
        => ( /\ pc' \in {"idle", "sleep"}
             /\ invoked' \cap SilverAllScripts = {}
             /\ silverMeta' = silverMeta ) ]_vars

\* a non-forced cycle right after a successful rebuild: two sources skipped,
\* one failed, no Silver script invoked, exit code 0
C10_Witness ==
    /\ BronzeSilver /\ ~force /\ OneShotExited /\ cycles >= 2
    /\ silverBuiltCycle = cycles - 1
    /\ \A s \in Sources : bronze_results[s] \in {"None", "False"}
    /\ SnapshotUpToDate(silverMeta, bronzeMeta)
    /\ invoked \cap SilverAllScripts = {}
    /\ exit_code = 0

C17_DaemonOutlivesFailures ==
    [][ (daemon /\ abort' # "interrupt") =>
          /\ (pc \in CyclePcs /\ pc' \notin CyclePcs) =>
                (pc' = "sleep" /\ exit_code' = None /\ daemon')
          /\ (pc = "sleep" /\ pc' # "sleep") =>
                (pc' = "bronze" /\ cycles' = cycles + 1 /\ daemon'
                 /\ now' = now + check_interval) ]_vars

\* the daemon sleeps, its loop alive, after a cycle in which a source failed
\* and an exception then escaped run_pipeline
C17_Witness ==
    /\ daemon /\ pc = "sleep" /\ abort = "exception"
    /\ \E s \in Sources : bronze_results[s] = "False"

(***************************************************************************)
(* C18.  As claimed: when an interruption has ended the daemon loop, the   *)
(* cycle it arrived in has run to completion: every source was evaluated   *)
(* and no task run was cut off.  (KeyboardInterrupt leaves run_pipeline at *)
(* once: violated.)                                                        *)
(***************************************************************************)
C18_InterruptWaitsForCycleEnd ==
    (daemon /\ abort = "interrupt") =>
        /\ \A s \in Sources : bronze_results[s] # "unset"
        /\ run_result # "interrupted"

(***************************************************************************)
(* C20.  A step changes a source's freshness record only when it is the    *)
(* step in which that source's task succeeds in update_bronze_layer, and   *)
(* then the new record is the current time; every step in which a source   *)
(* is skipped or its task fails leaves its record as it was.               *)
(***************************************************************************)
C20_RecordWrittenOnlyOnSuccess ==
    [][ \A s \in Sources :
          bronzeMeta'[s] # bronzeMeta[s] =>
             /\ pc = "bronze" /\ SourceOrder[idx] = s
             /\ log' # <<>> /\ log'[Len(log')] = "ok"
             /\ bronze_results[s] = "unset" /\ bronze_results'[s] = "True"
             /\ bronzeMeta'[s] = now' ]_vars

\* second cycle: EIA's task failed, RBOB was skipped, and both still carry the
\* records of the first cycle
C20_Witness ==
    /\ cycles = 2 /\ pc \in {"bronze", "silver"}
    /\ bronze_results["eia"] = "False" /\ bronze_results["rbob"] = "None"
    /\ bronzeMeta["eia"] # None /\ bronzeMeta["eia"] < now
    /\ bronzeMeta["rbob"] # None /\ bronzeMeta["rbob"] < now

(***************************************************************************)
(* C15.  A run on a script that does not exist makes no attempt and no     *)
(* backoff sleep and returns failure at once, whatever the maximum retry   *)
(* count.                                                                  *)
(***************************************************************************)
C15_MissingScriptFailsAtOnce ==
    ~script_exists =>
        /\ log = <<>> /\ sleeps = <<>> /\ attempt = 0
        /\ pc \in {"runner_call", "runner_done"}
        /\ pc = "runner_done" => run_result = "missing"

\* the run on a missing script has returned, with the largest retry count
C15_Witness ==
    /\ ~script_exists /\ max_retries = MaxRunnerRetries
    /\ pc = "runner_done" /\ run_result = "missing" /\ log = <<>> /\ sleeps = <<>>

(***************************************************************************)
(* C16.  In a task run the i-th backoff sleep follows the failed attempt i *)
(* and comes before attempt i+1, so there is none after the last attempt;  *)
(* it lasts between 24*i and 36*i seconds (30*i with a jitter of at most   *)
(* 20% either way) and is never zero.                                      *)
(***************************************************************************)
C16_BackoffBetweenAttemptsOnly ==
    /\ \A i \in 1..Len(sleeps) :
          /\ i < max_retries
          /\ log[i] = "failed"
          /\ sleeps[i] >= 24 * i * 1000 /\ sleeps[i] <= 36 * i * 1000
          /\ sleeps[i] > 0
          /\ ~add_jitter => sleeps[i] = BACKOFF_BASE_SECONDS * i * 1000
    /\ pc = "runner_loop" => Len(sleeps) = Len(log)
    /\ (pc = "runner_done" /\ log # <<>>) => Len(sleeps) = Len(log) - 1

\* every attempt of four failed: three sleeps, the first at the lower and the
\* last near the upper end of the jitter
C16_Witness ==
    /\ pc = "runner_done" /\ run_result = "False" /\ add_jitter
    /\ max_retries = 4 /\ Len(log) = 4 /\ Len(sleeps) = 3
    /\ sleeps[1] = 24000 /\ sleeps[3] > 105000

\* the record of s was read in this process and has not been written since
ReadAndUntouched(s) == bronze_results[s] \in {"None", "False"}

(***************************************************************************)
(* C12.  As claimed: a write is atomic with respect to crashes.  In a      *)
(* process that follows one stopped inside a write, the read of a source   *)
(* returns a record (every source had a complete record before, so the old *)
(* or the new one), never nothing.  (open(file, 'w') truncates the record  *)
(* in place: violated.)                                                    *)
(***************************************************************************)
C12_WriteAtomicUnderCrash ==
    (abort = "crash" /\ pc # "store_idle") =>
        \A s \in Sources :
            ReadAndUntouched(s) => (read_result[s] # None /\ read_result[s] # Corrupt)

(***************************************************************************)
(* C13.  As claimed: the read of a record that exists but cannot be parsed *)
(* is never answered as "absent", and the cycle does not treat that source *)
(* as fresh.  (get_last_download_time catches the exception and returns    *)
(* None: violated.)                                                        *)
(***************************************************************************)
C13_UnreadableIsNotAbsent ==
    \A s \in Sources :
        (ReadAndUntouched(s) /\ bronzeMeta[s] = Corrupt) =>
            (read_result[s] # None /\ decision[s] # "fresh")

(***************************************************************************)
(* C14.  As claimed: a source whose task succeeded but whose record could  *)
(* not be written is not reported as a plain success.  (save_download_time *)
(* swallows the exception and results[source] = True: violated.)           *)
(***************************************************************************)
C14_UnrecordedSuccessIsDistinct ==
    \A s \in write_error : bronze_results[s] # "True"

\* an answer that is not a success: an error status, a request exception,
\* undecodable JSON, a malformed or an empty payload
FailedAnswers == ResponseKinds \ {"rows"}

(***************************************************************************)
(* C19.  As claimed: fetch makes at most max_retries requests; it returns  *)
(* on the first request that succeeds; when every request fails it raises  *)
(* EIAClientError, and nothing else, after exactly max_retries requests;   *)
(* it sleeps backoff_factor^(attempt-1) seconds after every failed request *)
(* but the last.  (A payload {"response": null} makes _to_dataframe raise  *)
(* TypeError on the request it answers: violated.)                         *)
(***************************************************************************)
C19_FetchRetriesThenClientError ==
    /\ Len(log) <= max_retries
    /\ \A i \in 1..Len(sleeps) : sleeps[i] = sleep_seconds(i)
    /\ pc = "fetch" =>
          /\ Len(sleeps) = Len(log)
          /\ \A i \in 1..Len(log) : log[i] \in FailedAnswers
    /\ pc = "fetch_done" =>
          /\ Len(sleeps) = Len(log) - 1
          /\ \A i \in 1..(Len(log) - 1) : log[i] \in FailedAnswers
          /\ IF log[Len(log)] = "rows"
             THEN run_result = "returned"
             ELSE run_result = "EIAClientError" /\ Len(log) = max_retries

\* a cycle has run to its end: the process has exited or the daemon sleeps
CycleOver == cycles >= 1 /\ pc \in {"idle", "sleep"} /\ abort = "none"
\* the cycle was cut short by an exception or by the end of the process
CycleCut == cycles >= 1 /\ abort \in {"exception", "interrupt"}

(***************************************************************************)
(* C21.  As claimed: when a cycle attempted the Silver rebuild and a       *)
(* mandatory script failed, Silver's record was not written in that cycle  *)
(* and the non-forced Silver decision on the records as they stand (the    *)
(* one the next cycle takes if it updates no source) says rebuild; the     *)
(* same holds when a cycle was cut short after it had written a source's   *)
(* record and before it wrote Silver's.  (A forced rebuild that fails      *)
(* while no source was updated leaves records by which Silver is up to     *)
(* date: violated.)                                                        *)
(***************************************************************************)
C21_FailedRebuildIsRetried ==
    /\ (BronzeSilver /\ CycleOver /\ SilverScriptSet \subseteq invoked /\ ~all_success) =>
          /\ silverBuiltCycle # cycles
          /\ should_rebuild_silver(FALSE, silverMeta, bronzeMeta)
    /\ (BronzeSilver /\ CycleCut /\ BronzeUpdated(bronze_results)
          /\ silverBuiltCycle # cycles) =>
          should_rebuild_silver(FALSE, silverMeta, bronzeMeta)

C23_SilverSuccessRebuildsGold ==
    (BronzeSilver /\ CycleOver /\ silverBuiltCycle = cycles) => GoldScript \in invoked

C25_EscapedExceptionKeepsRecords ==
    (BronzeSilver /\ daemon /\ cycles >= 1 /\ abort = "exception") =>
        /\ \A s \in Sources : bronzeMeta[s] # now
        /\ silverMeta.last_processed # now

\* datetime.minute
Minute(t) == (t % TicksPerHour) * TickMinutes
\* t is on weekday day at hour:minute
AtTarget(t, day, hour, minute) ==
    Weekday(t) = day /\ Hour(t) = hour /\ Minute(t) = minute
\* the next-expected-update time n computed at t for (day, hour:minute)
NextExpectedIsRight(n, t, day, hour, minute) ==
    /\ n > t
    /\ n <= t + MAX_AGE_DAYS * DayTicks
    /\ AtTarget(n, day, hour, minute)
    /\ AtTarget(t, day, hour, minute) => n = t + MAX_AGE_DAYS * DayTicks
    /\ n = LastPublish(t, day, hour, minute) + WeekTicks

(***************************************************************************)
(* C26.  The next-expected-update time computed for EIA and for Retail     *)
(* from the clock reading now is strictly later than now, at most 7 days   *)
(* after it, and falls on the target weekday at the target hour and        *)
(* minute; it is exactly 7 days after now when now is the target weekday   *)
(* and time; it is the first target moment after now.                      *)
(***************************************************************************)
C26_NextExpectedTime ==
    /\ NextExpectedIsRight(get_eia_update_time(now), now,
                           EIA_UPDATE_DAY, EIA_UPDATE_HOUR, EIA_UPDATE_MINUTE)
    /\ NextExpectedIsRight(get_retail_update_time(now), now,
                           RETAIL_UPDATE_DAY, RETAIL_UPDATE_HOUR, 0)

\* the sources were evaluated on a Wednesday at 15:30 sharp: EIA's next
\* update is a week later, Retail's the coming Monday at noon
C26_Witness ==
    /\ Evaluated
    /\ AtTarget(now, EIA_UPDATE_DAY, EIA_UPDATE_HOUR, EIA_UPDATE_MINUTE)
    /\ get_eia_update_time(now) = now + WeekTicks
    /\ get_retail_update_time(now) = now + 4 * DayTicks + 20 * TicksPerHour + 1

\* the units of a cycle: three sources, three mandatory and three optional scripts
TotalUnits == Len(SourceOrder) + Len(SilverScripts) + Len(OptionalScripts)
\* the number of the unit the cycle is at
UnitNumber ==
    CASE pc = "bronze" -> idx
      [] pc = "silver" -> Len(SourceOrder) + idx
      [] pc = "optional" -> Len(SourceOrder) + Len(SilverScripts) + idx
\* steps a unit takes at most: its start and DEFAULT_MAX_RETRIES attempts
UnitSteps == 1 + DEFAULT_MAX_RETRIES
\* an upper bound on the steps the cycle still takes: the units after this one
\* in full, and of this one the start or the attempts that are left
StepsLeft ==
    IF pc \notin CyclePcs THEN 0
    ELSE (TotalUnits - UnitNumber) * UnitSteps
           + (IF attempt = 0 THEN UnitSteps ELSE max_retries - attempt + 1)

(***************************************************************************)
(* C27.  Every cycle ends after a bounded number of steps, whatever the    *)
(* outcomes of its tasks: a task is attempted at most max_retries times,   *)
(* one backoff sleep lies between two consecutive attempts and none after  *)
(* the last, and every step of a cycle (a unit started, an attempt ended   *)
(* by success, failure, timeout or exception) strictly lowers a bound on   *)
(* the steps left that starts at no more than 9 units times 4 steps and    *)
(* is 0 when the cycle is over.                                            *)
(***************************************************************************)
C27_CycleTerminates ==
    [][ (pc \in CyclePcs) =>
          /\ StepsLeft' < StepsLeft
          /\ StepsLeft' >= 0
          /\ StepsLeft <= TotalUnits * UnitSteps
          /\ attempt' <= max_retries'
          /\ Len(log') <= max_retries'
          /\ attempt' >= 1 => Len(sleeps') = attempt' - 1
          /\ Len(sleeps') < max_retries'
          /\ Len(sleeps') <= Len(log') ]_vars

\* the longest cycle: every source was due and failed, Silver was rebuilt,
\* every optional script was there, and the last task failed on its last attempt
C27_Witness ==
    /\ BronzeSilver /\ CycleOver
    /\ \A s \in Sources : bronze_results[s] = "False"
    /\ ~all_success
    /\ (SourceScriptSet \cup SilverAllScripts) \subseteq invoked
    /\ run_result = "False" /\ Len(log) = OPTIONAL_MAX_RETRIES
    /\ Len(sleeps) = OPTIONAL_MAX_RETRIES - 1

\* the answer recorded for source s is the one should_update_* gives with
\* force=false on the record the source had when it was evaluated
DecidedWithoutForce(s) ==
    (decision[s] # "unset" /\ bronze_results[s] # "True") =>
        (decision[s] = "due" <=> should_update(s, FALSE, now, bronzeMeta[s]))

(***************************************************************************)
(* C28.  Under --daemon the force flag has no effect, whether --force was  *)
(* given or not: in every daemon cycle, the first included, the force      *)
(* argument of the cycle is false, every source is evaluated as            *)
(* should_update_* answers with force=false, and the Silver rebuild is     *)
(* entered exactly when a source was updated or should_rebuild_silver      *)
(* answers true with force=false.                                          *)
(***************************************************************************)
C28_DaemonIgnoresForce ==
    [][ daemon' =>
          /\ ~force'
          /\ \A s \in Sources : DecidedWithoutForce(s)'
          /\ (BronzeSilver /\ pc = "bronze" /\ pc' \notin {"bronze"} /\ abort' = "none") =>
                (pc' = "silver" <=>
                    (BronzeUpdated(bronze_results')
                       \/ should_rebuild_silver(FALSE, silverMeta, bronzeMeta'))) ]_vars

\* the first cycle of a daemon, on a Friday after the market has closed: RBOB
\* was skipped, which a forced cycle never does, and Silver was rebuilt
C28_Witness ==
    /\ BronzeSilver /\ daemon /\ cycles = 1 /\ pc = "sleep" /\ abort = "none"
    /\ ~is_market_hours(now)
    /\ decision["rbob"] = "fresh" /\ bronze_results["rbob"] = "None"
    /\ silverBuiltCycle = 1

\* C29: the later clock readings looked at, up to this many weeks after now
MaxLaterWeeks == 2
LaterTimes(t) == t..(t + MaxLaterWeeks * WeekTicks)

(***************************************************************************)
(* C29.  A fixed-weekly source that is evaluated as due with force=false   *)
(* is evaluated as due at every later clock reading as long as its record  *)
(* is the same (so a source whose task failed, which leaves its record as  *)
(* it was, is due again in every following cycle).                         *)
(***************************************************************************)
C29_DueStaysDue ==
    (Evaluated /\ ~force) =>
        \A s \in FixedWeekly :
            decision[s] = "due" =>
                \A t \in LaterTimes(now) : should_update(s, FALSE, t, bronzeMeta[s])

\* both fixed-weekly sources are due with a record a tick more than 7 days
\* old, and still due a day and a week later
C29_Witness ==
    /\ Evaluated /\ ~force
    /\ bronzeMeta["retail"] = now - (MAX_AGE_DAYS * DayTicks + 1)
    /\ decision["eia"] = "due" /\ decision["retail"] = "due"
    /\ should_update("retail", FALSE, now + DayTicks, bronzeMeta["retail"])
    /\ should_update("eia", FALSE, now + WeekTicks, bronzeMeta["eia"])

(***************************************************************************)
(* update_pipeline.py: smart_update, the one-shot program that rebuilds    *)
(* Bronze, Silver and Gold from the modification times of the files in     *)
(* data/bronze, data/silver and data/gold.  run_script here is one         *)
(* subprocess.run without retry and without timeout.  A script that        *)
(* succeeds writes its layer's files; one that fails may have written some *)
(* of them.  log is the sequence of the scripts run_script was called on,  *)
(* run_result what the last call returned ("raised": an exception other    *)
(* than CalledProcessError, which ends the interpreter with status 1).     *)
(* Every layer starts missing, empty, or with files of an age in SmartAges.*)
(***************************************************************************)
\* datetime.min, what get_latest_modification returns for a directory that
\* is missing or holds no data file
DATETIME_MIN == -1000000
\* smart_update(max_age_hours: int = 24), --max-age default
DEFAULT_MAX_AGE_HOURS == 24

\* update_bronze: bronze_scripts; update_silver runs SilverScripts, update_gold GoldScript
SmartBronzeScripts == <<"download_rbob_data_bronze.py", "download_retail_prices_bronze.py",
                        "download_eia_data_bronze.py">>
SmartScripts(layer) ==
    CASE layer = "bronze" -> SmartBronzeScripts
      [] layer = "silver" -> SilverScripts
      [] layer = "gold" -> <<GoldScript>>

\* get_latest_modification(directory), dir being the state of the directory
get_latest_modification(dir) == IF dir = None THEN DATETIME_MIN ELSE dir

\* is_stale(source_dir, target_dir, max_age_hours) at clock reading t
is_stale(source, target, t, max_age_hours) ==
    IF target = None THEN TRUE
    ELSE IF t - get_latest_modification(target) > max_age_hours * TicksPerHour THEN TRUE
    ELSE IF source # None /\ get_latest_modification(source) > get_latest_modification(target)
         THEN TRUE
    ELSE FALSE

\* a staleness that is not handed down to the next layer
needs_update_no_cascade(stale, upstream) == stale

\* "needs_silver = is_stale(...) or needs_bronze", "needs_gold = ... or needs_silver"
needs_update(stale, upstream) == stale \/ upstream

\* the three tests of smart_update; cwd is what get_latest_modification
\* finds under Path(), the current directory
smart_needs(m, cwd, t, max_age_hours) ==
    LET needs_bronze == is_stale(cwd, m["bronze"], t, max_age_hours)
        needs_silver == needs_update(is_stale(m["bronze"], m["silver"], t, max_age_hours),
                                     needs_bronze)
        needs_gold == needs_update(is_stale(m["silver"], m["gold"], t, max_age_hours),
                                   needs_silver)
    IN  [l \in Layers |-> CASE l = "bronze" -> needs_bronze
                            [] l = "silver" -> needs_silver
                            [] l = "gold" -> needs_gold]

\* the place of smart_update at which layer l is updated
SmartPc(l) ==
    CASE l = "bronze" -> "smart_bronze"
      [] l = "silver" -> "smart_silver"
      [] l = "gold" -> "smart_gold"
SmartPcs == {SmartPc(l) : l \in Layers}
\* the layer smart_update is at
SmartLayer == CHOOSE l \in Layers : SmartPc(l) = pc

\* "if needs_bronze: ... if needs_silver: ... if needs_gold: ...": the first
\* layer after position k of LayerOrder that is to be updated, "idle" if none
RECURSIVE smart_next(_, _)
smart_next(k, n) ==
    IF k >= Len(LayerOrder) THEN "idle"
    ELSE IF n[LayerOrder[k + 1]] THEN SmartPc(LayerOrder[k + 1])
    ELSE smart_next(k + 1, n)

\* the position of layer l in LayerOrder
LayerIndex(l) == CHOOSE k \in 1..Len(LayerOrder) : LayerOrder[k] = l

\* ages, in ticks, of the newest file of a layer when the model starts
SmartAges == {0, DEFAULT_MAX_AGE_HOURS * TicksPerHour, DEFAULT_MAX_AGE_HOURS * TicksPerHour + 1}
\* the time between two runs of the program
SmartGaps == {1, 2 * DayTicks}
\* what lies under the current directory: no data file at all, or the data
\* directory itself (the program run from the project root), whose newest
\* file is the newest of the three layers
CwdTimes(m) ==
    {DATETIME_MIN,
     CHOOSE x \in {get_latest_modification(m[l]) : l \in Layers} :
        \A l \in Layers : x >= get_latest_modification(m[l])}

InitSmart ==
    /\ now \in {t + WeekTicks : t \in StartTimes}
    /\ mtime \in [Layers -> {None, DATETIME_MIN} \cup {now - a : a \in SmartAges}]
    /\ needs = NoNeeds
    /\ program = "update_pipeline"
    /\ pc = "idle"
    /\ idx = 1
    /\ cycles = 0
    /\ invoked = {}
    /\ log = <<>>
    /\ run_result = "none"
    /\ exit_code = None
    /\ abort = "none"
    /\ bronzeMeta = [s \in Sources |-> None]
    /\ silverMeta = NoSilver
    /\ daemon = FALSE
    /\ force = FALSE
    /\ check_interval = TicksPerHour
    /\ attempt = 0
    /\ max_retries = DEFAULT_MAX_RETRIES
    /\ bronze_results = Unset
    /\ all_success = TRUE
    /\ decision = Unset
    /\ silverBuiltCycle = None
    /\ sleeps = <<>>
    /\ add_jitter = FALSE
    /\ script_exists = TRUE
    /\ read_result = NoReads
    /\ write_error = {}

\* what update_pipeline.py never touches
smartFrame == <<bronzeMeta, silverMeta, program, daemon, force, check_interval, attempt,
                max_retries, bronze_results, all_success, decision, silverBuiltCycle,
                sleeps, add_jitter, script_exists, read_result, write_error>>

\* main() without --full, --gold-only, --silver: smart_update(args.max_age)
\* up to its first script: the three staleness tests, "return 0" if nothing
\* is to be done, else on to the first layer that is
SmartInvoke(gap, cwd) ==
    /\ pc = "idle"
    /\ cycles < MaxCycles
    /\ now' = now + gap
    /\ cycles' = cycles + 1
    /\ needs' = smart_needs(mtime, cwd, now', DEFAULT_MAX_AGE_HOURS)
    /\ pc' = smart_next(0, needs')
    /\ idx' = 1
    /\ exit_code' = IF pc' = "idle" THEN 0 ELSE None
    /\ invoked' = {}
    /\ log' = <<>>
    /\ run_result' = "none"
    /\ abort' = "none"
    /\ UNCHANGED mtime
    /\ UNCHANGED smartFrame

\* update_bronze / update_silver / update_gold, one script: run_script returns
\* True (exit status 0), or False (the script is missing, or ended with
\* another status), or raises; "if not run_script(...): return False" and
\* "if not update_x(): return 1" end the run at the first failure
SmartRun(outcome, wrote) ==
    /\ pc \in SmartPcs
    /\ LET scripts == SmartScripts(SmartLayer)
           script == scripts[idx]
       IN  /\ invoked' = invoked \cup {script}
           /\ log' = Append(log, script)
           /\ run_result' = outcome
           /\ mtime' = IF outcome = "True" \/ (outcome \in {"False", "raised"} /\ wrote)
                       THEN [mtime EXCEPT ![SmartLayer] = now]
                       ELSE mtime
           /\ IF outcome = "True"
              THEN /\ abort' = abort
                   /\ IF idx < Len(scripts)
                      THEN pc' = pc /\ idx' = idx + 1 /\ exit_code' = exit_code
                      ELSE /\ pc' = smart_next(LayerIndex(SmartLayer), needs)
                           /\ idx' = 1
                           /\ exit_code' = IF pc' = "idle" THEN 0 ELSE None
              ELSE /\ pc' = "idle"
                   /\ idx' = idx
                   /\ exit_code' = 1
                   /\ abort' = IF outcome = "raised" THEN "exception" ELSE abort
    /\ UNCHANGED <<now, cycles, needs>>
    /\ UNCHANGED smartFrame

NextSmart ==
    \/ \E gap \in SmartGaps, cwd \in CwdTimes(mtime) : SmartInvoke(gap, cwd)
    \/ \E outcome \in {"True", "False", "missing", "raised"}, wrote \in BOOLEAN :
          SmartRun(outcome, wrote)

SpecSmart == InitSmart /\ [][NextSmart]_vars

\* what smart_update is to run, given its three answers: the scripts of the
\* layers to update, Bronze's first, then Silver's, then Gold's
SmartPlan(n) ==
    (IF n["bronze"] THEN SmartBronzeScripts ELSE <<>>)
      \o (IF n["silver"] THEN SilverScripts ELSE <<>>)
      \o (IF n["gold"] THEN <<GoldScript>> ELSE <<>>)
IsPrefix(p, q) == Len(p) <= Len(q) /\ \A i \in 1..Len(p) : p[i] = q[i]

(***************************************************************************)
(* C30.  In smart_update a stale Bronze makes Silver and Gold due for      *)
(* rebuilding and a stale Silver makes Gold due; the scripts run are, in   *)
(* this order, those of the layers to rebuild, Bronze's, then Silver's,    *)
(* then Gold's; while the run goes on every script so far succeeded; the   *)
(* run exits 0 exactly when all of them were run and succeeded, and exits  *)
(* 1 at the first script that fails, which is then the last script run.    *)
(***************************************************************************)
C30_SmartUpdateCascadesAndFailsFast ==
    cycles >= 1 =>
        /\ needs["bronze"] => needs["silver"]
        /\ needs["silver"] => needs["gold"]
        /\ IsPrefix(log, SmartPlan(needs))
        /\ pc \in SmartPcs =>
              /\ exit_code = None
              /\ Len(log) < Len(SmartPlan(needs))
              /\ SmartPlan(needs)[Len(log) + 1] = SmartScripts(SmartLayer)[idx]
              /\ log # <<>> => run_result = "True"
        /\ pc = "idle" =>
              /\ exit_code \in {0, 1}
              /\ exit_code = 0 =>
                    /\ log = SmartPlan(needs)
                    /\ log # <<>> => run_result = "True"
              /\ exit_code = 1 =>
                    /\ log # <<>>
                    /\ run_result \in {"False", "missing", "raised"}

\* Bronze was stale, so all three layers were to be rebuilt; the second
\* download script failed and the run ended with exit code 1 after two
\* scripts, no Silver or Gold script run
C30_Witness ==
    /\ pc = "idle" /\ exit_code = 1
    /\ needs = [l \in Layers |-> TRUE]
    /\ log = <<SmartBronzeScripts[1], SmartBronzeScripts[2]>>
    /\ run_result = "False"
    /\ invoked \cap (SilverScriptSet \cup {GoldScript}) = {}

====
